---- MODULE Spec2Model ----
(***************************************************************************)
(* A model of anyplot (src/anyplot.py): one command-line invocation reads  *)
(* its input, loads the cache metadata, looks a cached script up, and on a *)
(* miss infers a regex (create_regex), synthesizes and validates a script  *)
(* (synthesize_script), commits it (save_script) and runs it.              *)
(*                                                                         *)
(* Text is a sequence of lines (a string split at its newlines).  Python's *)
(* None is the empty sequence; an Optional[str] is <<>> or <<s>>.          *)
(***************************************************************************)
EXTENDS Naturals, Sequences, FiniteSets

VARIABLES
    metaFile,               \* ~/.cache/anyplot/metadata.json
    scripts,                \* ~/.cache/anyplot/scripts/: file name -> content
    tempFile,               \* the NamedTemporaryFile of synthesize_script
    pc,                     \* position of the invocation in main
    err,                    \* the exception / exit that ended the invocation
    instructions,           \* args.instructions
    skip_cache,             \* args.skip_cache
    data,                   \* data.split("\n")
    lines,                  \* main's lines
    metadata,               \* main's in-memory metadata
    cached_script,          \* main's cached_script
    pattern,                \* create_regex's pattern
    representative_lines,   \* create_regex's representative_lines
    attempt,                \* the loop variable of the running retry loop
    validation,             \* (success, error) of the last validate_script
    child,                  \* what the last validated child process did
    validated_input,        \* the lines piped to the last validated child
    script_content,         \* the value synthesize_script returned
    script_path,            \* the path main hands to run_script
    askCalls,               \* ask_claude calls of this invocation
    synthAsks,              \* ask_claude calls made by synthesize_script
    validateCalls,          \* validate_script calls of this invocation
    validateFails,          \* ... of which failed
    lookups,                \* find_cached_script calls of this invocation
    saves,                  \* save_script calls of this invocation
    lastReply,              \* the reply the last ask_claude returned
    metaFile0,              \* metadata.json when the invocation started
    scripts0,               \* scripts/ when the invocation started
    lastCommit,             \* the last save_script: its arguments, its path,
                            \* whether the call before had the same arguments,
                            \* and the id the pair had before
    runs,                   \* invocations started so far
    talk,                   \* the messages list of the running retry loop, as
                            \* the last ask_claude call got it and as it is
                            \* now, when the conversation is followed
    peer                    \* a second anyplot process on the same cache

diskVars == <<metaFile, scripts, tempFile>>
argVars == <<instructions, skip_cache, data>>
histVars == <<metaFile0, scripts0, runs>>
regexVars == <<pattern, representative_lines>>
validVars == <<validation, child, validated_input>>
countVars == <<askCalls, synthAsks, validateCalls, validateFails, lookups, saves>>
vars == <<metaFile, scripts, tempFile, pc, err, instructions, skip_cache, data,
          lines, metadata, cached_script, pattern, representative_lines,
          attempt, validation, child, validated_input, script_content,
          script_path, askCalls, synthAsks, validateCalls, validateFails,
          lookups, saves, lastReply, metaFile0, scripts0, lastCommit, runs,
         talk, peer>>

----------------------------------------------------------------------------
(* Bounds of the model and constants of the program.                       *)

\* invocations in one behaviour
MaxRuns == 2
\* non-numeric lines that may follow the numeric lines of an input
MaxTail == 1

\* max_attempts of create_regex and of synthesize_script
MaxAttempts == 5
\* lines[:5] and [...][:5] in create_regex
SampleSize == 5
\* lines[:10] in find_cached_script
ProbeWindow == 10

None == <<>>

Min(a, b) == IF a < b THEN a ELSE b

\* s[:n]
Take(s, n) == SubSeq(s, 1, Min(n, Len(s)))

\* [x] * n
Repeat(x, n) == [i \in 1..n |-> x]

----------------------------------------------------------------------------
(* Text: lines, fenced code blocks, script bodies.                         *)

NumLine == "1,2"
AlphaLine == "a,b"

\* line.strip() is empty
IsBlank(line) == line \in {"", " "}

\* [line for line in data.split("\n") if line.strip()]
NonBlankLines(d) ==
    LET Keep(line) == ~IsBlank(line) IN SelectSeq(d, Keep)

\* A fence (three backquotes) is written [fence].
Fence == "[fence]"
FencePy == "[fence]python"

\* the line ends with a fence followed by word characters only
IsOpenFence(line) == line \in {Fence, FencePy}

\* the line is a fence alone
IsCloseFence(line) == line = Fence

\* index of the last line that is not whitespace, 0 if there is none
LastNonBlank(text) ==
    LET S == {i \in 1..Len(text) : ~IsBlank(text[i])}
    IN IF S = {} THEN 0 ELSE CHOOSE i \in S : \A j \in S : j <= i

\* index of the first line that can open a fence, 0 if there is none
FirstOpenFence(text) ==
    LET S == {i \in 1..Len(text) : IsOpenFence(text[i])}
    IN IF S = {} THEN 0 ELSE CHOOSE i \in S : \A j \in S : i <= j

\* a variant that takes a reply without a final block for an empty block
BlockOrEmpty(text) ==
    LET j == LastNonBlank(text)
        i == FirstOpenFence(text)
    IN IF j > 0 /\ IsCloseFence(text[j]) /\ i > 0 /\ i + 2 <= j
       THEN [ok |-> TRUE, body |-> SubSeq(text, i + 1, j - 1)]
       ELSE [ok |-> TRUE, body |-> None]

\* re.search of fence, \w*, newline, (.*?), newline, fence, \s*$ with DOTALL:
\* the search starts at the first opening fence and the match must end with a closing fence
\* that only whitespace follows; group(1) is everything in between.
get_final_code_block(text) ==
    LET j == LastNonBlank(text)
        i == FirstOpenFence(text)
    IN IF j > 0 /\ IsCloseFence(text[j]) /\ i > 0 /\ i + 2 <= j
       THEN [ok |-> TRUE, body |-> SubSeq(text, i + 1, j - 1)]
       ELSE [ok |-> FALSE, body |-> None]

ShebangPy == "#!/usr/bin/env python3"

\* content.startswith("#!")
StartsWithShebang(content) ==
    Len(content) > 0 /\ content[1] \in {ShebangPy, "#!/bin/sh"}

\* the text write_script writes to the path
write_script(content) ==
    IF StartsWithShebang(content) THEN content
    ELSE <<ShebangPy, "">> \o content

\* hashlib.sha256(content).hexdigest(), taken to be collision free; the
\* script's path scripts/<id>.py is identified with the id
Sha256(content) == <<"sha256">> \o content

----------------------------------------------------------------------------
(* Regular expressions: a pattern is the text of a code block.             *)

PDigits == <<"^\\d+,\\d+$">>
PAny == <<"^.*$">>
PBad == <<"(\\d+">>

\* re.compile(pattern) does not raise re.error
Compiles(p) == p \in {PDigits, PAny}

\* re.compile(pattern).match(line) is a match. re.MULTILINE, which only
\* find_cached_script passes, changes nothing for a line without a newline.
RegexMatch(p, line) ==
    CASE p = PDigits -> line = NumLine
      [] p = PAny -> TRUE
      [] OTHER -> FALSE

\* all(regex_obj.match(line) for line in ls)
MatchesAll(p, ls) == \A i \in 1..Len(ls) : RegexMatch(p, ls[i])

\* [line for line in ls if not regex_obj.match(line)]
NonMatching(p, ls) ==
    LET Fails(line) == ~RegexMatch(p, line) IN SelectSeq(ls, Fails)

----------------------------------------------------------------------------
(* The cache: metadata.json and scripts/.                                  *)
(* A Metadata value m stands for {"instructionsToRegexToScriptId": m}: a   *)
(* function from instruction texts to dicts, a dict being the sequence of  *)
(* its items in insertion order.                                           *)

EmptyMap == <<>>

AbsentFile == [kind |-> "absent", map |-> EmptyMap]

\* json.dump(metadata, f, indent=2) into a file opened with "w"
save_cache_metadata(m) == [kind |-> "object", map |-> m]

\* load_cache_metadata: the metadata, or the exception json.load or
\* data.get raises
load_cache_metadata(file) ==
    CASE file.kind = "absent" -> [ok |-> TRUE, metadata |-> EmptyMap, error |-> "none"]
      [] file.kind = "object" -> [ok |-> TRUE, metadata |-> file.map, error |-> "none"]
      [] file.kind = "nokey" -> [ok |-> TRUE, metadata |-> EmptyMap, error |-> "none"]
      [] file.kind = "unparseable" ->
            [ok |-> FALSE, metadata |-> EmptyMap, error |-> "JSONDecodeError"]
      [] file.kind = "nonobject" ->
            [ok |-> FALSE, metadata |-> EmptyMap, error |-> "AttributeError"]

\* d.get(k): the value, or None
DictGet(d, k) ==
    IF \E i \in 1..Len(d) : d[i].regex = k
    THEN (d[CHOOSE i \in 1..Len(d) : d[i].regex = k]).id
    ELSE None

\* a variant that adds an item whether or not the key is there
DictAppend(d, k, v) == Append(d, [regex |-> k, id |-> v])

\* d[k] = v: an existing key keeps its place, a new key goes last
DictSet(d, k, v) ==
    IF \E i \in 1..Len(d) : d[i].regex = k
    THEN [i \in 1..Len(d) |->
             IF d[i].regex = k THEN [regex |-> k, id |-> v] ELSE d[i]]
    ELSE Append(d, [regex |-> k, id |-> v])

\* a variant that lets a later item override an earlier one
RECURSIVE LastUsable(_, _, _)
LastUsable(items, probe, files) ==
    IF items = <<>> THEN None
    ELSE LET e == items[Len(items)]
         IN IF Compiles(e.regex) /\ MatchesAll(e.regex, probe) /\ e.id \in files
            THEN e.id
            ELSE LastUsable(SubSeq(items, 1, Len(items) - 1), probe, files)

\* a variant that gives up at a pattern that does not compile
RECURSIVE UsableUntilBad(_, _, _)
UsableUntilBad(items, probe, files) ==
    IF items = <<>> THEN None
    ELSE LET e == Head(items)
         IN IF ~Compiles(e.regex) THEN None
            ELSE IF MatchesAll(e.regex, probe) /\ e.id \in files
            THEN e.id
            ELSE UsableUntilBad(Tail(items), probe, files)

\* the loop of find_cached_script over regex_to_script_id.items()
RECURSIVE FirstUsable(_, _, _)
FirstUsable(items, probe, files) ==
    IF items = <<>> THEN None
    ELSE LET e == Head(items)
         IN IF Compiles(e.regex) /\ MatchesAll(e.regex, probe) /\ e.id \in files
            THEN e.id
            ELSE FirstUsable(Tail(items), probe, files)

\* a variant that looks the instruction up with setdefault
FindWithSetdefault(instr, ls, m, files) ==
    [path |-> IF instr \notin DOMAIN m \/ m[instr] = <<>>
              THEN None
              ELSE FirstUsable(m[instr], Take(ls, ProbeWindow), files),
     metadata |-> [i \in DOMAIN m \cup {instr} |->
                      IF i \in DOMAIN m THEN m[i] ELSE <<>>]]

\* find_cached_script(instructions, lines, metadata), files being the names
\* in scripts/: the path of the script, or None, and the metadata object as
\* the call leaves it
find_cached_script(instr, ls, m, files) ==
    [path |-> IF instr \notin DOMAIN m \/ m[instr] = <<>>
              THEN None
              ELSE FirstUsable(m[instr], Take(ls, ProbeWindow), files),
     metadata |-> m]

\* a variant that leaves no other file in scripts/
WriteFileAlone(dir, name, content) == [n \in {name} |-> content]

\* path.write_text(content) on scripts/
WriteFile(dir, name, content) ==
    [n \in DOMAIN dir \cup {name} |-> IF n = name THEN content ELSE dir[n]]

\* metadata[...][instructions][data_regex] = script_id, the instruction
\* getting an empty dict first when it has none
SetEntry(m, instr, regex, id) ==
    [i \in DOMAIN m \cup {instr} |->
        IF i = instr
        THEN DictSet(IF instr \in DOMAIN m THEN m[instr] ELSE <<>>, regex, id)
        ELSE m[i]]

\* a variant that writes metadata.json before it adds the entry
SaveWithoutEntry(content, instr, regex, m, dir) ==
    LET body == write_script(content)
        script_id == Sha256(body)
        m2 == SetEntry(m, instr, regex, script_id)
    IN [scripts |-> WriteFile(dir, script_id, write_script(body)),
        metadata |-> m2,
        file |-> save_cache_metadata(m),
        path |-> script_id]

\* save_script(script_content, instructions, data_regex, metadata) on the
\* scripts directory dir: the files, the metadata (in memory and, through
\* save_cache_metadata, on disk) and the returned path
save_script(content, instr, regex, m, dir) ==
    LET body == write_script(content)
        script_id == Sha256(body)
        m2 == SetEntry(m, instr, regex, script_id)
    IN [scripts |-> WriteFile(dir, script_id, write_script(body)),
        metadata |-> m2,
        file |-> save_cache_metadata(m2),
        path |-> script_id]

\* str(n) of a one-digit number
Decimal(n) == <<"0", "1", "2", "3", "4", "5", "6", "7", "8", "9">>[n + 1]

\* the parts of the f-string of the ValueError create_regex raises after its
\* loop
RegexExhaustedError(max_attempts) ==
    <<"Failed to generate valid regex after ", Decimal(max_attempts), " attempts">>

\* the parts of the f-string of the ValueError synthesize_script raises
\* after its loop
SynthExhaustedError(max_attempts) ==
    <<"Failed to generate valid script after ", Decimal(max_attempts), " attempts">>

\* validate_script's (success, error) for what the child process did
validate_script(c) ==
    CASE c.kind = "exit" /\ c.code = 0 -> [success |-> TRUE, error |-> None]
      [] c.kind = "exit" /\ c.code # 0 -> [success |-> FALSE, error |-> <<c.text>>]
      [] c.kind = "timeout" ->
            [success |-> FALSE, error |-> <<"Script execution timed out">>]
      [] c.kind = "fault" -> [success |-> FALSE, error |-> <<c.text>>]

----------------------------------------------------------------------------
(* The inputs the model draws from.                                        *)

Instructions == {"plot X over time", "histogram"}

\* data.split("\n") of p numeric lines, then s non-numeric ones, then the
\* empty string that follows the last newline
Data(p, s) == Repeat(NumLine, p) \o Repeat(AlphaLine, s) \o <<"">>

Datasets == {Data(p, s) : p \in {0, SampleSize, ProbeWindow}, s \in 0..MaxTail}

BodyA == <<"import plotly">>
BodyC == <<"#!/bin/sh", "exec plot">>
IdA == Sha256(write_script(BodyA))
IdC == Sha256(write_script(BodyC))

\* what the model may answer when asked for a regex
RegexReplies ==
    {<<"Here is the regex:", Fence>> \o p \o <<Fence>> : p \in {PDigits, PAny, PBad}}
        \cup {<<"I need more examples.">>}

\* what the model may answer when asked for a script
\* ... ending in a fenced code block
FencedScriptReplies ==
    {<<"Here is the script:", FencePy>> \o BodyA \o <<Fence, "">>,
     <<FencePy>> \o BodyC \o <<Fence>>}

\* ... not ending in one: text follows the block, or there is no block
UnfencedScriptReplies ==
    {<<FencePy>> \o BodyA \o <<Fence, "Run it with --dry-run first.">>,
     <<"I cannot plot this.">>}

ScriptReplies == FencedScriptReplies \cup UnfencedScriptReplies

\* what a validated child process may do
ChildOutcomes ==
    {[kind |-> "exit", code |-> 0, text |-> ""],
     [kind |-> "exit", code |-> 1, text |-> "Traceback"],
     [kind |-> "exit", code |-> 1, text |-> "Script execution timed out"],
     [kind |-> "timeout", code |-> 0, text |-> ""],
     [kind |-> "fault", code |-> 0, text |-> "Exec format error"]}

NoChild == [kind |-> "none", code |-> 0, text |-> ""]
NoValidation == [success |-> FALSE, error |-> None]
NoTemp == [state |-> "none", content |-> None]
NoCommit ==
    [content |-> None, instr |-> "", regex |-> None, path |-> None,
     repeated |-> FALSE, replaced |-> None]

\* a cache that earlier invocations, or the user, left behind
SeedMap ==
    [i \in Instructions |->
        IF i = "plot X over time"
        THEN <<[regex |-> PBad, id |-> IdC],
               [regex |-> PDigits, id |-> IdA],
               [regex |-> PAny, id |-> IdC]>>
        ELSE <<>>]

\* a cache whose only stored pattern does not compile
BadSeedMap ==
    [i \in {"histogram"} |-> <<[regex |-> PBad, id |-> IdA]>>]

SeedScripts ==
    [n \in {IdA, IdC} |-> IF n = IdA THEN write_script(BodyA) ELSE write_script(BodyC)]

NoScripts == <<>>

\* the caches an invocation may find: none yet, a metadata.json that is not
\* the JSON the program writes, and the seed with some of its scripts gone
InitCaches ==
    {[file |-> f, scripts |-> NoScripts] :
        f \in {AbsentFile,
               [kind |-> "unparseable", map |-> EmptyMap],
               [kind |-> "nonobject", map |-> EmptyMap],
               [kind |-> "nokey", map |-> EmptyMap]}}
    \cup {[file |-> [kind |-> "object", map |-> SeedMap],
           scripts |-> [n \in S |-> SeedScripts[n]]] : S \in SUBSET {IdA, IdC}}
    \cup {[file |-> [kind |-> "object", map |-> BadSeedMap], scripts |-> SeedScripts]}

----------------------------------------------------------------------------
(* One invocation of main.                                                 *)

\* the conversation with the model: a list of {"role": ..., "content": ...},
\* the content a sequence of lines
UserMessage(content) == [role |-> "user", content |-> content]
AssistantMessage(response) == [role |-> "assistant", content |-> response]

\* the first prompt of create_regex, without its examples
RegexPrompt(sample) ==
    <<"Here are several strings, one per line:", Fence>> \o sample
        \o <<Fence, "Respond with a regular expression that matches all of the strings.">>

\* the correction request of create_regex
RegexCorrection(failures) ==
    <<"The regex failed to match the following lines:">> \o failures
        \o <<"Please fix the regex.">>

\* initial_prompt of synthesize_script, without its list of requirements
InitialPrompt(instr, ls) ==
    <<"Generate a Python script that uses plotly", instr, Fence>>
        \o Take(ls, ProbeWindow)
        \o <<Fence, "Return the COMPLETE Python script in a code block">>

\* the correction request of synthesize_script; f"{error}" of None is "None"
ScriptCorrection(error) ==
    <<"The script failed with this error:", Fence>>
        \o (IF error = None THEN <<"None">> ELSE error)
        \o <<Fence, "Please fix the script">>

\* a variant that starts the list anew with every message
Restart(messages, message) == <<message>>

\* messages.append(message)
Extend(messages, message) == Append(messages, message)

\* a conversation that is not followed, and one that is
NoTalk == [on |-> FALSE, asked |-> <<>>, messages |-> <<>>]
NewTalk == [on |-> TRUE, asked |-> <<>>, messages |-> <<>>]

\* the user message is appended to the list, ask_claude(messages) is called,
\* and its response, when it returns one, is appended as well
Asked(t, messages, content, responses) ==
    IF ~t.on THEN t
    ELSE LET given == Extend(messages, UserMessage(content))
         IN [on |-> TRUE,
             asked |-> given,
             messages |-> IF responses = <<>> THEN given
                          ELSE Extend(given, AssistantMessage(responses[1]))]

\* a second process before it has done anything
NoPeer ==
    [pc |-> "idle", metadata |-> EmptyMap, instr |-> "", regex |-> None,
     path |-> None, loadedFirst |-> FALSE, mainLoaded |-> FALSE,
     mainSaved |-> FALSE]

\* the state of an invocation that has not run yet
Fresh ==
    /\ pc = "start"
    /\ err = "none"
    /\ lines = <<>>
    /\ metadata = EmptyMap
    /\ cached_script = None
    /\ pattern = None
    /\ representative_lines = <<>>
    /\ attempt = 0
    /\ validation = NoValidation
    /\ child = NoChild
    /\ validated_input = <<>>
    /\ script_content = None
    /\ script_path = None
    /\ askCalls = 0
    /\ synthAsks = 0
    /\ validateCalls = 0
    /\ validateFails = 0
    /\ lookups = 0
    /\ saves = 0
    /\ lastReply = <<>>
    /\ tempFile = NoTemp

\* the same, of the invocation that starts
Started ==
    /\ pc' = "start"
    /\ err' = "none"
    /\ lines' = <<>>
    /\ metadata' = EmptyMap
    /\ cached_script' = None
    /\ pattern' = None
    /\ representative_lines' = <<>>
    /\ attempt' = 0
    /\ validation' = NoValidation
    /\ child' = NoChild
    /\ validated_input' = <<>>
    /\ script_content' = None
    /\ script_path' = None
    /\ askCalls' = 0
    /\ synthAsks' = 0
    /\ validateCalls' = 0
    /\ validateFails' = 0
    /\ lookups' = 0
    /\ saves' = 0
    /\ lastReply' = <<>>
    /\ tempFile' = NoTemp

Init ==
    /\ \E c \in InitCaches : metaFile = c.file /\ scripts = c.scripts
    /\ instructions \in Instructions
    /\ skip_cache \in BOOLEAN
    /\ data \in Datasets
    /\ metaFile0 = metaFile
    /\ scripts0 = scripts
    /\ lastCommit = NoCommit
    /\ runs = 1
    /\ talk = NoTalk
    /\ peer = NoPeer
    /\ Fresh

\* an uncaught exception, or sys.exit with a non-zero code
Fail(e) == pc' = "failed" /\ err' = e

\* main, lines 346-363: the non-blank lines, or "No data provided"
ReadInput ==
    /\ pc = "start"
    /\ lines' = NonBlankLines(data)
    /\ IF lines' = <<>> THEN Fail("NoData") ELSE pc' = "load" /\ err' = err
    /\ UNCHANGED <<diskVars, argVars, histVars, regexVars, validVars, countVars,
                   metadata, cached_script, attempt, script_content,
                   script_path, lastReply, lastCommit,
                   talk, peer>>

\* main, line 365
LoadMetadata ==
    /\ pc = "load"
    /\ LET r == load_cache_metadata(metaFile)
       IN IF r.ok
          THEN metadata' = r.metadata /\ pc' = "lookup" /\ err' = err
          ELSE metadata' = metadata /\ Fail(r.error)
    /\ UNCHANGED <<diskVars, argVars, histVars, regexVars, validVars, countVars,
                   lines, cached_script, attempt, script_content,
                   script_path, lastReply, lastCommit,
                   talk, peer>>

\* a variant that looks the cache up even with --skip-cache
LookupAlways ==
    /\ pc = "lookup"
    /\ LET r == find_cached_script(instructions, lines, metadata, DOMAIN scripts)
       IN /\ cached_script' = r.path
          /\ metadata' = r.metadata
          /\ lookups' = lookups + 1
    /\ IF cached_script' # None
       THEN script_path' = cached_script' /\ pc' = "run"
       ELSE script_path' = script_path /\ pc' = "regex_ask"
    /\ UNCHANGED <<diskVars, argVars, histVars, regexVars, validVars,
                   askCalls, synthAsks, validateCalls, validateFails, saves,
                   err, lines, attempt, script_content,
                   lastReply, lastCommit,
                   talk, peer>>

\* main, lines 367-372
Lookup ==
    /\ pc = "lookup"
    /\ IF skip_cache
       THEN cached_script' = None /\ metadata' = metadata /\ lookups' = lookups
       ELSE LET r == find_cached_script(instructions, lines, metadata, DOMAIN scripts)
            IN /\ cached_script' = r.path
               /\ metadata' = r.metadata
               /\ lookups' = lookups + 1
    /\ IF cached_script' # None
       THEN script_path' = cached_script' /\ pc' = "run"
       ELSE script_path' = script_path /\ pc' = "regex_ask"
    /\ UNCHANGED <<diskVars, argVars, histVars, regexVars, validVars,
                   askCalls, synthAsks, validateCalls, validateFails, saves,
                   err, lines, attempt, script_content,
                   lastReply, lastCommit,
                   talk, peer>>

\* pattern = get_final_code_block(response); regex_obj = re.compile(pattern)
\* and then what follows when neither raises
ReceivePattern(reply, continue) ==
    LET block == get_final_code_block(reply)
    IN /\ pattern' = block.body
       /\ IF ~block.ok THEN Fail("NoCodeBlock")
          ELSE IF ~Compiles(block.body) THEN Fail("re.error")
          ELSE continue

\* create_regex, lines 72-141: the first request
RegexAsk ==
    /\ pc = "regex_ask"
    /\ representative_lines' = Take(lines, SampleSize)
    /\ askCalls' = askCalls + 1
    /\ attempt' = 0
    /\ \/ /\ Fail("ModelError")
          /\ talk' = Asked(talk, <<>>, RegexPrompt(representative_lines'), <<>>)
          /\ UNCHANGED <<pattern, lastReply>>
       \/ \E reply \in RegexReplies :
             /\ lastReply' = reply
             /\ talk' = Asked(talk, <<>>, RegexPrompt(representative_lines'),
                              <<reply>>)
             /\ ReceivePattern(reply, pc' = "regex_check" /\ err' = err)
    /\ UNCHANGED <<diskVars, argVars, histVars, validVars,
                   synthAsks, validateCalls, validateFails, lookups, saves,
                   lines, metadata, cached_script, script_content,
                   script_path, lastCommit,
                   peer>>

\* a variant that tests the pattern on the sample only
FailuresInSample(p, ls) == Take(NonMatching(p, Take(ls, SampleSize)), SampleSize)

\* failures = [line for line in lines if not regex_obj.match(line)][:5]
Failures(p, ls) == Take(NonMatching(p, ls), SampleSize)

\* create_regex, lines 143-152: the head of one round of the loop; with no
\* failure create_regex returns and main calls synthesize_script
RegexCheck ==
    /\ pc = "regex_check"
    /\ LET failures == Failures(pattern, lines)
       IN IF failures = <<>>
          THEN /\ pc' = "synth_ask"
               /\ representative_lines' = representative_lines
          ELSE /\ pc' = "regex_fix"
               /\ representative_lines' = representative_lines \o failures
    /\ UNCHANGED <<diskVars, argVars, histVars, validVars, countVars,
                   err, lines, metadata, cached_script, pattern, attempt,
                   script_content, script_path, lastReply, lastCommit,
                   talk, peer>>

\* create_regex, lines 154-166: the correction request of one round, and
\* the raise that follows the last round
RegexFix ==
    /\ pc = "regex_fix"
    /\ askCalls' = askCalls + 1
    /\ attempt' = attempt + 1
    /\ \/ /\ Fail("ModelError")
          /\ talk' = Asked(talk, talk.messages,
                           RegexCorrection(Failures(pattern, lines)), <<>>)
          /\ UNCHANGED <<pattern, lastReply>>
       \/ \E reply \in RegexReplies :
             /\ lastReply' = reply
             /\ talk' = Asked(talk, talk.messages,
                              RegexCorrection(Failures(pattern, lines)), <<reply>>)
             /\ ReceivePattern(reply,
                    IF attempt + 1 < MaxAttempts
                    THEN pc' = "regex_check" /\ err' = err
                    ELSE Fail("RegexExhausted"))
    /\ UNCHANGED <<diskVars, argVars, histVars, validVars,
                   synthAsks, validateCalls, validateFails, lookups, saves,
                   lines, metadata, cached_script, representative_lines,
                   script_content, script_path, lastCommit,
                   peer>>

Deleted == [state |-> "deleted", content |-> None]

\* synthesize_script, lines 215-243: the first request and the draft
SynthAsk ==
    /\ pc = "synth_ask"
    /\ askCalls' = askCalls + 1
    /\ synthAsks' = synthAsks + 1
    /\ attempt' = 0
    /\ \/ /\ Fail("ModelError")
          /\ talk' = Asked(talk, <<>>,
                           InitialPrompt(instructions, representative_lines), <<>>)
          /\ UNCHANGED <<tempFile, lastReply>>
       \/ \E reply \in ScriptReplies :
             LET block == get_final_code_block(reply)
             IN /\ lastReply' = reply
                /\ talk' = Asked(talk, <<>>,
                                 InitialPrompt(instructions, representative_lines),
                                 <<reply>>)
                /\ IF block.ok
                   THEN /\ tempFile' = [state |-> "exists",
                                        content |-> write_script(block.body)]
                        /\ pc' = "validate"
                        /\ err' = err
                   ELSE /\ tempFile' = [state |-> "exists", content |-> <<>>]
                        /\ Fail("NoCodeBlock")
    /\ UNCHANGED <<metaFile, scripts, argVars, histVars, regexVars, validVars,
                   validateCalls, validateFails, lookups, saves,
                   lines, metadata, cached_script, script_content,
                   script_path, lastCommit,
                   peer>>

\* a variant that returns the reply's code block, not the draft's text
ReturnedBlock(file, response) == get_final_code_block(response).body

\* result = temp_path.read_text(); return result
ReturnedText(file, response) == file.content

\* synthesize_script, lines 247-253: validate_script on the draft, and the
\* return on success. main passes representative_lines as lines.
Validate ==
    /\ pc = "validate"
    /\ \E c \in ChildOutcomes :
          /\ child' = c
          /\ validation' = validate_script(c)
    /\ validated_input' = representative_lines
    /\ validateCalls' = validateCalls + 1
    /\ IF validation'.success
       THEN /\ script_content' = ReturnedText(tempFile, lastReply)
            /\ tempFile' = Deleted
            /\ validateFails' = validateFails
            /\ pc' = "save"
       ELSE /\ script_content' = script_content
            /\ tempFile' = tempFile
            /\ validateFails' = validateFails + 1
            /\ pc' = "synth_fix"
    /\ UNCHANGED <<metaFile, scripts, argVars, histVars, regexVars,
                   askCalls, synthAsks, lookups, saves,
                   err, lines, metadata, cached_script, attempt,
                   script_path, lastReply, lastCommit,
                   talk, peer>>

\* synthesize_script, lines 255-274: the correction request of one round,
\* the new draft, and the raise that follows the last round
SynthFix ==
    /\ pc = "synth_fix"
    /\ askCalls' = askCalls + 1
    /\ synthAsks' = synthAsks + 1
    /\ attempt' = attempt + 1
    /\ \/ /\ Fail("ModelError")
          /\ tempFile' = Deleted
          /\ talk' = Asked(talk, talk.messages,
                           ScriptCorrection(validation.error), <<>>)
          /\ UNCHANGED lastReply
       \/ \E reply \in ScriptReplies :
             LET block == get_final_code_block(reply)
             IN /\ lastReply' = reply
                /\ talk' = Asked(talk, talk.messages,
                                 ScriptCorrection(validation.error), <<reply>>)
                /\ IF ~block.ok
                   THEN tempFile' = Deleted /\ Fail("NoCodeBlock")
                   ELSE IF attempt + 1 < MaxAttempts
                   THEN /\ tempFile' = [state |-> "exists",
                                        content |-> write_script(block.body)]
                        /\ pc' = "validate"
                        /\ err' = err
                   ELSE tempFile' = Deleted /\ Fail("SynthExhausted")
    /\ UNCHANGED <<metaFile, scripts, argVars, histVars, regexVars, validVars,
                   validateCalls, validateFails, lookups, saves,
                   lines, metadata, cached_script, script_content,
                   script_path, lastCommit,
                   peer>>

\* main, line 381: save_script
SaveScript ==
    /\ pc = "save"
    /\ LET r == save_script(script_content, instructions, pattern, metadata, scripts)
       IN /\ scripts' = r.scripts
          /\ metadata' = r.metadata
          /\ metaFile' = r.file
          /\ script_path' = r.path
          /\ lastCommit' =
                [content |-> script_content, instr |-> instructions,
                 regex |-> pattern, path |-> r.path,
                 repeated |-> /\ lastCommit.content = script_content
                              /\ lastCommit.instr = instructions
                              /\ lastCommit.regex = pattern,
                 replaced |-> IF instructions \in DOMAIN metadata
                              THEN DictGet(metadata[instructions], pattern)
                              ELSE None]
    /\ saves' = saves + 1
    /\ pc' = "run"
    /\ UNCHANGED <<tempFile, argVars, histVars, regexVars, validVars,
                   askCalls, synthAsks, validateCalls, validateFails, lookups,
                   err, lines, cached_script, attempt, script_content,
                   lastReply,
                   talk, peer>>

\* main, line 383: run_script, which exits with the child's code when it
\* is not zero
RunScript ==
    /\ pc = "run"
    /\ \E code \in {0, 1} :
          IF code = 0 THEN pc' = "done" /\ err' = err ELSE Fail("ExitCode")
    /\ UNCHANGED <<diskVars, argVars, histVars, regexVars, validVars, countVars,
                   lines, metadata, cached_script, attempt, script_content,
                   script_path, lastReply, lastCommit,
                   talk, peer>>

\* the process has ended; the same command is given again, with or without
\* --skip-cache, on the cache as it now is
NextInvocation ==
    /\ pc \in {"done", "failed"}
    /\ runs < MaxRuns
    /\ runs' = runs + 1
    /\ skip_cache' \in BOOLEAN
    /\ metaFile0' = metaFile
    /\ scripts0' = scripts
    /\ talk' = NoTalk
    /\ Started
    /\ UNCHANGED <<metaFile, scripts, lastCommit, instructions, data, peer>>

Next ==
    \/ ReadInput
    \/ LoadMetadata
    \/ Lookup
    \/ RegexAsk
    \/ RegexCheck
    \/ RegexFix
    \/ SynthAsk
    \/ Validate
    \/ SynthFix
    \/ SaveScript
    \/ RunScript
    \/ NextInvocation

Spec == Init /\ [][Next]_vars

\* one command whose conversations with the model are followed: a cache
\* miss on numeric lines followed by other lines
InitTalk ==
    /\ metaFile = AbsentFile
    /\ scripts = NoScripts
    /\ instructions = "histogram"
    /\ skip_cache = FALSE
    /\ data = Data(SampleSize, MaxTail)
    /\ metaFile0 = metaFile
    /\ scripts0 = scripts
    /\ lastCommit = NoCommit
    /\ runs = 1
    /\ talk = NewTalk
    /\ peer = NoPeer
    /\ Fresh

SpecTalk == InitTalk /\ [][Next]_vars

\* everything but the cache directory and the second process
processVars ==
    <<tempFile, pc, err, instructions, skip_cache, data, lines, metadata,
      cached_script, pattern, representative_lines, attempt, validation, child,
      validated_input, script_content, script_path, askCalls, synthAsks,
      validateCalls, validateFails, lookups, saves, lastReply, metaFile0,
      scripts0, lastCommit, runs, talk>>

\* main, line 365, in the second process; it notes whether the first
\* process has not saved yet
PeerLoad ==
    /\ peer.pc = "idle"
    /\ LET r == load_cache_metadata(metaFile)
       IN peer' = IF r.ok
                  THEN [peer EXCEPT !.pc = "loaded", !.metadata = r.metadata,
                                    !.loadedFirst = (saves = 0)]
                  ELSE [peer EXCEPT !.pc = "failed"]
    /\ UNCHANGED <<metaFile, scripts, processVars>>

\* main, line 381, in the second process, which missed the cache and got a
\* pattern and a script from the model; it notes whether the first process
\* has loaded and whether it has saved
PeerSave ==
    /\ peer.pc = "loaded"
    /\ \E instr \in Instructions, regex \in {PDigits, PAny} :
          LET r == save_script(BodyC, instr, regex, peer.metadata, scripts)
          IN /\ scripts' = r.scripts
             /\ metaFile' = r.file
             /\ peer' = [pc |-> "done", metadata |-> r.metadata,
                         instr |-> instr, regex |-> regex, path |-> r.path,
                         loadedFirst |-> peer.loadedFirst,
                         mainLoaded |-> pc \notin {"start", "load"},
                         mainSaved |-> saves > 0]
    /\ UNCHANGED processVars

\* one invocation next to a second process, on no cache or on the whole seed
InitRace ==
    /\ \E c \in {[file |-> AbsentFile, scripts |-> NoScripts],
                  [file |-> [kind |-> "object", map |-> SeedMap],
                   scripts |-> SeedScripts]} :
          metaFile = c.file /\ scripts = c.scripts
    /\ instructions \in Instructions
    /\ skip_cache = FALSE
    /\ data \in {Data(SampleSize, s) : s \in 0..MaxTail}
    /\ metaFile0 = metaFile
    /\ scripts0 = scripts
    /\ lastCommit = NoCommit
    /\ runs = 1
    /\ talk = NoTalk
    /\ peer = NoPeer
    /\ Fresh

NextRace ==
    \/ ReadInput
    \/ LoadMetadata
    \/ Lookup
    \/ RegexAsk
    \/ RegexCheck
    \/ RegexFix
    \/ SynthAsk
    \/ Validate
    \/ SynthFix
    \/ SaveScript
    \/ RunScript
    \/ PeerLoad
    \/ PeerSave

SpecRace == InitRace /\ [][NextRace]_vars

\* a variant in which metadata.json is written before the script file
DumpBeforeWrite(content, instr, regex, m, dir, file) ==
    {[scripts |-> dir, file |-> file],
     [scripts |-> dir, file |-> save_script(content, instr, regex, m, dir).file]}

\* the cache directory when save_script is cut off between two of its
\* statements: before write_script (line 286), or after it and before
\* save_cache_metadata (line 293)
InterruptedSaves(content, instr, regex, m, dir, file) ==
    {[scripts |-> dir, file |-> file],
     [scripts |-> save_script(content, instr, regex, m, dir).scripts,
      file |-> file]}

\* main, line 381: the process is killed inside save_script
SaveInterrupted ==
    /\ pc = "save"
    /\ \E d \in InterruptedSaves(script_content, instructions, pattern,
                                  metadata, scripts, metaFile) :
          /\ scripts' = d.scripts
          /\ metaFile' = d.file
    /\ Fail("Interrupted")
    /\ UNCHANGED <<tempFile, argVars, histVars, regexVars, validVars, countVars,
                   lines, metadata, cached_script, attempt, script_content,
                   script_path, lastReply, lastCommit, talk, peer>>

\* invocations that start on an empty cache
InitEmptyCache ==
    /\ metaFile = AbsentFile
    /\ scripts = NoScripts
    /\ instructions \in Instructions
    /\ skip_cache \in BOOLEAN
    /\ data \in Datasets
    /\ metaFile0 = metaFile
    /\ scripts0 = scripts
    /\ lastCommit = NoCommit
    /\ runs = 1
    /\ talk = NoTalk
    /\ peer = NoPeer
    /\ Fresh

NextOrInterrupt ==
    \/ ReadInput
    \/ LoadMetadata
    \/ Lookup
    \/ RegexAsk
    \/ RegexCheck
    \/ RegexFix
    \/ SynthAsk
    \/ Validate
    \/ SynthFix
    \/ SaveScript
    \/ SaveInterrupted
    \/ RunScript
    \/ NextInvocation

SpecEmptyCache == InitEmptyCache /\ [][NextOrInterrupt]_vars

----------------------------------------------------------------------------
(* The claims.                                                             *)

\* the cache is as the invocation found it
CacheUntouched ==
    /\ metaFile = metaFile0
    /\ scripts = scripts0
    /\ saves = 0

\* C1: when validate_script succeeds on attempt k, synthesize_script returns
\* at once: it has made exactly k+1 model calls and k+1 validations, k of
\* them failed, no model call follows in the invocation, and the value it
\* returned is the text of the draft written from the (k+1)-th reply.
C1_ReturnsValidatedDraft ==
    script_content # None =>
        /\ validation.success
        /\ attempt = validateFails
        /\ validateFails < MaxAttempts
        /\ validateCalls = validateFails + 1
        /\ synthAsks = validateFails + 1
        /\ get_final_code_block(lastReply).ok
        /\ script_content = write_script(get_final_code_block(lastReply).body)

\* C1: a script is returned after two failed validations
C1_Witness ==
    /\ script_content # None
    /\ validateFails = 2
    /\ pc = "done"

\* C2: when validate_script fails on all max_attempts attempts (and every
\* model call returns a reply), synthesize_script raises the exhaustion
\* error and the metadata, in memory and on disk, and the scripts directory
\* are as they were before the invocation.
C2_ExhaustionLeavesCache ==
    (pc = "failed" /\ validateFails = MaxAttempts /\ err # "ModelError") =>
        /\ err = "SynthExhausted"
        /\ CacheUntouched
        /\ metadata = load_cache_metadata(metaFile0).metadata

\* the lines of ls
Range(ls) == {ls[i] : i \in 1..Len(ls)}

\* create_regex has returned to main
RegexReturned == pc = "synth_ask" \/ synthAsks > 0

\* C3: the pattern create_regex returns matches every input line, the
\* representative lines it returns are input lines, and the pattern main
\* stores is that pattern.
C3_ReturnedPatternMatchesAll ==
    RegexReturned =>
        /\ Compiles(pattern)
        /\ \A i \in 1..Len(lines) : RegexMatch(pattern, lines[i])
        /\ Range(representative_lines) \subseteq Range(lines)
        /\ saves > 0 =>
              /\ lastCommit.regex = pattern
              /\ DictGet(metaFile.map[instructions], pattern) = script_path

\* C3: a pattern was stored for an input longer than the sample, after the
\* first pattern had failed on a line outside the sample
C3_Witness ==
    /\ saves > 0
    /\ Len(lines) > SampleSize
    /\ Len(representative_lines) > SampleSize

\* find_cached_script has been called and main has not stored anything
\* since, so metadata and scripts are those of the call
LookedUp == lookups > 0 /\ saves = 0

\* the items of the instruction's dict, none when the key is absent
ItemsOf(m, instr) == IF instr \in DOMAIN m THEN m[instr] ELSE <<>>

\* the first lines, those find_cached_script tests
Probe == SubSeq(lines, 1, Min(ProbeWindow, Len(lines)))

\* the item's pattern compiles and matches every probe line
ItemMatches(e) ==
    /\ Compiles(e.regex)
    /\ \A i \in 1..Len(Probe) : RegexMatch(e.regex, Probe[i])

\* C4 as stated: find_cached_script returns the script of the first stored
\* pattern that matches every probe line, and None only when none matches.
C4_FirstMatchingPattern ==
    LookedUp =>
        LET items == ItemsOf(metadata, instructions)
            hits == {i \in 1..Len(items) : ItemMatches(items[i])}
        IN IF hits = {} THEN cached_script = None
           ELSE \E i \in hits :
                   /\ \A j \in hits : i <= j
                   /\ cached_script = items[i].id

\* C4 as amended: find_cached_script returns the script of the first stored
\* pattern that matches every one of the first 10 lines and whose script
\* file exists, and None only when there is no such pattern.
C4_FirstMatchingPatternWithFile ==
    LookedUp =>
        LET items == ItemsOf(metadata, instructions)
            hits == {i \in 1..Len(items) :
                        ItemMatches(items[i]) /\ items[i].id \in DOMAIN scripts}
        IN IF hits = {} THEN cached_script = None
           ELSE \E i \in hits :
                   /\ \A j \in hits : i <= j
                   /\ cached_script = items[i].id

\* C4: the lookup returned the earlier of two usable patterns, for an input
\* whose line after the probe window matches only the later one
C4_Witness ==
    /\ LookedUp
    /\ Len(lines) > ProbeWindow
    /\ \E i, j \in 1..Len(ItemsOf(metadata, instructions)) :
          /\ i < j
          /\ ItemMatches(metadata[instructions][i])
          /\ ItemMatches(metadata[instructions][j])
          /\ {metadata[instructions][i].id, metadata[instructions][j].id}
                \subseteq DOMAIN scripts
          /\ metadata[instructions][i].id # metadata[instructions][j].id
          /\ cached_script = metadata[instructions][i].id
          /\ ~RegexMatch(metadata[instructions][i].regex, lines[Len(lines)])

\* C5: the step that calls find_cached_script leaves the metadata, in
\* memory and on disk, and the scripts as they are, and the call returns
\* None when the instruction is no key of the metadata or its dict is empty.
C5_LookupIsPure ==
    [][pc = "lookup" =>
          /\ metadata' = metadata
          /\ metaFile' = metaFile
          /\ scripts' = scripts
          /\ ItemsOf(metadata, instructions) = <<>> => cached_script' = None]_vars

\* C5: the lookup was made for an instruction that is no key of a metadata
\* with other keys, or for one whose dict is empty
C5_Witness ==
    /\ LookedUp
    /\ pc = "regex_ask"
    /\ DOMAIN metadata # {}
    /\ ItemsOf(metadata, instructions) = <<>>

\* C5: the same for a metadata with no key at all
C5_WitnessAbsent ==
    /\ LookedUp
    /\ pc = "regex_ask"
    /\ instructions \notin DOMAIN metadata

\* the metadata the invocation loaded, or would load
Loaded0 == load_cache_metadata(metaFile0).metadata

\* C6: without skip-cache, when the metadata holds for the instruction a
\* pattern that matches the first 10 lines and whose script exists, the
\* invocation runs a stored script of that instruction and calls neither
\* the model nor validate_script nor save_script; with skip-cache
\* find_cached_script is not called.
C6_HitGoesStraightToRunner ==
    /\ skip_cache => lookups = 0 /\ cached_script = None
    /\ (/\ lookups > 0
        /\ \E i \in 1..Len(ItemsOf(Loaded0, instructions)) :
              /\ ItemMatches(Loaded0[instructions][i])
              /\ Loaded0[instructions][i].id \in DOMAIN scripts0) =>
          /\ pc \in {"run", "done", "failed"}
          /\ pc = "failed" => err = "ExitCode"
          /\ cached_script # None
          /\ script_path = cached_script
          /\ \E i \in 1..Len(Loaded0[instructions]) :
                /\ ItemMatches(Loaded0[instructions][i])
                /\ Loaded0[instructions][i].id = script_path
          /\ askCalls = 0
          /\ validateCalls = 0
          /\ CacheUntouched
          /\ metadata = Loaded0

\* C6: a cached script ran
C6_Witness ==
    /\ pc = "done"
    /\ lookups = 1
    /\ cached_script # None

\* C6: an invocation with skip-cache stored a script although the cache
\* held a usable pattern
C6_WitnessSkip ==
    /\ pc = "done"
    /\ skip_cache
    /\ saves = 1
    /\ find_cached_script(instructions, lines, Loaded0, DOMAIN scripts0).path # None

\* the places of the pattern among the items
PlacesOf(items, regex) == {i \in 1..Len(items) : items[i].regex = regex}

\* C7: a save_script call leaves exactly one item for its (instructions,
\* pattern) pair, naming the script it wrote and returned (the body with its
\* interpreter line, under the digest of that text), and adds no other file; when the call before had the same body, instructions and pattern,
\* the call changes neither metadata.json nor scripts/ and returns the same
\* path.
C7_CommitIsIdempotent ==
    [][pc = "save" =>
          /\ metaFile'.kind = "object"
          /\ metaFile'.map = metadata'
          /\ instructions \in DOMAIN metadata'
          /\ \E i \in 1..Len(metadata'[instructions]) :
                /\ PlacesOf(metadata'[instructions], pattern) = {i}
                /\ metadata'[instructions][i].id = script_path'
          /\ DOMAIN scripts' = DOMAIN scripts \cup {script_path'}
          /\ scripts'[script_path'] = write_script(script_content)
          /\ script_path' = Sha256(scripts'[script_path'])
          /\ \A n \in DOMAIN scripts : n # script_path' => scripts'[n] = scripts[n]
          /\ (/\ lastCommit.content = script_content
              /\ lastCommit.instr = instructions
              /\ lastCommit.regex = pattern) =>
                /\ metaFile' = metaFile
                /\ scripts' = scripts
                /\ script_path' = lastCommit.path]_vars

\* C7: save_script was called twice in a row with the same arguments
C7_Witness ==
    /\ pc = "run"
    /\ saves = 1
    /\ lastCommit.repeated

\* C7: save_script gave a stored pair another script
C7_WitnessReplaced ==
    /\ pc = "run"
    /\ saves = 1
    /\ lastCommit.replaced # None
    /\ lastCommit.replaced # lastCommit.path

\* C8 as stated: load_cache_metadata never fails; it returns the stored
\* mapping of a well-formed metadata.json and the empty structure otherwise.
C8_LoadNeverFails ==
    /\ err \notin {"JSONDecodeError", "AttributeError"}
    /\ pc = "lookup" =>
          metadata = IF metaFile.kind = "object" THEN metaFile.map ELSE EmptyMap

\* C9: after a reply to synthesize_script that does not end in a fenced
\* code block the invocation has failed with the missing-block error: no
\* draft holds text of that reply, the reply's draft was not validated, no
\* script was returned and the cache is untouched.
C9_UnfencedReplyIsAnError ==
    lastReply \in UnfencedScriptReplies =>
        /\ pc = "failed"
        /\ err = "NoCodeBlock"
        /\ tempFile.content = <<>>
        /\ validateCalls = synthAsks - 1
        /\ validateFails = validateCalls
        /\ script_content = None
        /\ script_path = None
        /\ CacheUntouched

\* C9: a reply to a correction request had no final code block
C9_Witness ==
    /\ lastReply \in UnfencedScriptReplies
    /\ synthAsks > 1
    /\ pc = "failed"

\* C9: the reply to the first request had no final code block
C9_WitnessFirst ==
    /\ lastReply \in UnfencedScriptReplies
    /\ synthAsks = 1
    /\ pc = "failed"

\* C10 as stated: the value validate_script returns for a timeout is
\* returned for no other outcome of the child.
C10_TimeoutIsDistinct ==
    (/\ validateCalls > 0
     /\ validation = validate_script([kind |-> "timeout", code |-> 0, text |-> ""])) =>
        child.kind = "timeout"

\* C11 as stated: every validation pipes the complete list of non-blank
\* input lines, the list run_script gets, to the candidate.
C11_ValidatesFullInput ==
    validateCalls > 0 => validated_input = lines

\* C12 as stated: the error raised when a retry budget is exhausted carries
\* the last diagnostic: the error text of the last failed validation, or
\* the lines the last checked pattern failed to match.
C12_ExhaustionCarriesDiagnostic ==
    /\ (pc = "failed" /\ err = "SynthExhausted") =>
          /\ validation.error # None
          /\ validation.error[1] \in Range(SynthExhaustedError(MaxAttempts))
    /\ (pc = "failed" /\ err = "RegexExhausted") =>
          Range(RegexExhaustedError(MaxAttempts)) \cap Range(lines) # {}

\* C14 as stated: when create_regex raises its exhaustion error the pattern
\* received last fails to match some input line.
C14_ExhaustedOnlyIfStillFailing ==
    (pc = "failed" /\ err = "RegexExhausted") =>
        \E i \in 1..Len(lines) : ~RegexMatch(pattern, lines[i])

\* C15 as stated: synthesize_script validates every candidate it writes, so
\* it has validated as often as it has called the model whenever it waits
\* for neither, and it calls the model at most max_attempts times.
C15_EveryCandidateIsValidated ==
    /\ synthAsks <= MaxAttempts
    /\ (pc = "failed" /\ err = "SynthExhausted") => validateCalls = synthAsks

\* the items of the instruction whose pattern compiles
CompilingItems ==
    LET Good(e) == Compiles(e.regex)
    IN SelectSeq(ItemsOf(metadata, instructions), Good)

\* C17: a stored pattern that does not compile raises nothing and changes
\* nothing: find_cached_script returns what it returns for the mapping without
\* such patterns, which is None when no other pattern is stored.
C17_MalformedPatternIsSkipped ==
    (LookedUp /\ CompilingItems # ItemsOf(metadata, instructions)) =>
        /\ askCalls = 0 => err \in {"none", "ExitCode"}
        /\ CompilingItems = <<>> => cached_script = None
        /\ cached_script =
              find_cached_script(instructions, lines,
                                 [i \in {instructions} |-> CompilingItems],
                                 DOMAIN scripts).path

\* C17: a pattern stored after one that does not compile was found
C17_Witness ==
    /\ LookedUp
    /\ cached_script # None
    /\ ~Compiles(metadata[instructions][1].regex)

\* C17: a mapping with no pattern that compiles gave no match
C17_WitnessOnlyMalformed ==
    /\ LookedUp
    /\ pc = "regex_ask"
    /\ ItemsOf(metadata, instructions) # <<>>
    /\ CompilingItems = <<>>

\* C19 as stated: once synthesize_script has been left, by a return or by
\* an exception, its temporary draft does not exist.
C19_DraftIsCleanedUp ==
    (synthAsks > 0 /\ pc \in {"save", "run", "done", "failed"}) =>
        tempFile.state # "exists"

\* the invocation before this one stored a script, this one looks the cache
\* up and has not stored anything itself
AfterCommit ==
    /\ runs > 1
    /\ lastCommit # NoCommit
    /\ saves = 0
    /\ ~skip_cache
    /\ pc \notin {"start", "load", "lookup"}

\* C20: after an invocation stored a script, the same command without
\* skip-cache finds a script and calls the model not at all; the script is
\* the stored one unless an item in front of it matches the first 10 lines.
C20_StoreThenLookup ==
    AfterCommit =>
        /\ lookups = 1
        /\ cached_script # None
        /\ script_path = cached_script
        /\ askCalls = 0
        /\ validateCalls = 0
        /\ \/ cached_script = lastCommit.path
           \/ \E i, j \in 1..Len(metadata[instructions]) :
                 /\ i < j
                 /\ metadata[instructions][j].regex = lastCommit.regex
                 /\ ItemMatches(metadata[instructions][i])
                 /\ metadata[instructions][i].id = cached_script

\* C20: the script an invocation stored was found and run by the next one
C20_Witness ==
    /\ AfterCommit
    /\ pc = "done"
    /\ cached_script = lastCommit.path
    /\ metaFile0.map[instructions][1].regex = lastCommit.regex

\* C20: the next invocation found the script of an item in front of the
\* stored one
C20_WitnessEarlier ==
    /\ AfterCommit
    /\ pc = "done"
    /\ cached_script # lastCommit.path

\* a step that calls ask_claude for the n-th time in create_regex or in
\* synthesize_script: what the list it passes looks like
NthCallGetsWholeHistory ==
    (talk.on /\ askCalls' = askCalls + 1) =>
        LET inSynth == synthAsks' > synthAsks
            n == IF inSynth THEN synthAsks' ELSE askCalls'
            given == talk'.asked
        IN /\ Len(given) = 2 * n - 1
           /\ \A i \in 1..Len(given) :
                 given[i].role = IF i % 2 = 1 THEN "user" ELSE "assistant"
           /\ n > 1 =>
                 /\ SubSeq(given, 1, 2 * n - 2) =
                       Append(talk.asked, AssistantMessage(lastReply))
                 /\ IF inSynth
                    THEN /\ ~validation.success
                         /\ validation.error # None
                         /\ validation.error[1] \in Range(given[2 * n - 1].content)
                    ELSE /\ Failures(pattern, lines) # <<>>
                         /\ Range(Failures(pattern, lines))
                               \subseteq Range(given[2 * n - 1].content)

\* C16: the list given to the n-th model call of create_regex or of
\* synthesize_script has 2n-1 messages, user and assistant in turn from a
\* user message to a user message, begins with the list of the call before
\* followed by that call's reply, and ends, from the second call on, with a
\* message holding the error text of the validation, or the lines the check
\* of the pattern, that failed just before.
C16_ConversationIsAppendOnly == [][NthCallGetsWholeHistory]_vars

\* C16: the third call of synthesize_script got five messages
C16_Witness ==
    /\ talk.on
    /\ pc = "validate"
    /\ synthAsks = 3
    /\ Len(talk.asked) = 5
    /\ Len(talk.messages) = 6

\* C16: the third call of create_regex got five messages
C16_WitnessRegex ==
    /\ talk.on
    /\ pc = "regex_check"
    /\ askCalls = 3
    /\ Len(talk.asked) = 5

\* both processes missed the cache, loaded metadata.json before either of
\* them saved, and have stored different (instruction, pattern) pairs
BothCommitted ==
    /\ peer.pc = "done"
    /\ saves = 1
    /\ peer.loadedFirst
    /\ peer.mainLoaded
    /\ <<peer.instr, peer.regex>> # <<lastCommit.instr, lastCommit.regex>>

\* the pair and the path the process that saved first stored, and the
\* in-memory metadata of the process that saved last
SavedFirst ==
    IF peer.mainSaved
    THEN [instr |-> lastCommit.instr, regex |-> lastCommit.regex,
          path |-> lastCommit.path]
    ELSE [instr |-> peer.instr, regex |-> peer.regex, path |-> peer.path]
SavedLastMetadata == IF peer.mainSaved THEN peer.metadata ELSE metadata

\* C13: when two processes that missed the cache load metadata.json before
\* either saves and store different pairs, metadata.json ends as the dump of
\* the in-memory metadata of the one that saved last: the pair of the other
\* maps to what it mapped to when they loaded, to nothing when it was not
\* stored then, and both script files are in scripts/.
C13_LastWriterWins ==
    BothCommitted =>
        /\ metaFile = save_cache_metadata(SavedLastMetadata)
        /\ DictGet(ItemsOf(metaFile.map, SavedFirst.instr), SavedFirst.regex)
              = DictGet(ItemsOf(Loaded0, SavedFirst.instr), SavedFirst.regex)
        /\ DictGet(ItemsOf(Loaded0, SavedFirst.instr), SavedFirst.regex) = None
              => \A i \in DOMAIN metaFile.map :
                    \A k \in 1..Len(metaFile.map[i]) :
                       <<i, metaFile.map[i][k].regex>>
                          # <<SavedFirst.instr, SavedFirst.regex>>
        /\ {lastCommit.path, peer.path} \subseteq DOMAIN scripts
        /\ scripts[lastCommit.path] = write_script(lastCommit.content)
        /\ scripts[peer.path] = write_script(BodyC)

\* C13: the second process saved last and the entry of the first is lost
C13_Witness ==
    /\ BothCommitted
    /\ peer.mainSaved
    /\ pc = "done"
    /\ DictGet(ItemsOf(metaFile.map, lastCommit.instr), lastCommit.regex) = None
    /\ DictGet(ItemsOf(metaFile.map, peer.instr), peer.regex) = peer.path

\* C13: the first process saved last and the entry of the second is lost
C13_WitnessPeerLost ==
    /\ BothCommitted
    /\ ~peer.mainSaved
    /\ pc = "done"
    /\ DictGet(ItemsOf(metaFile.map, peer.instr), peer.regex) = None
    /\ DictGet(ItemsOf(metaFile.map, lastCommit.instr), lastCommit.regex)
          = lastCommit.path

\* C18: from an empty cache, whatever invocations ran and wherever one was
\* killed inside save_script, every id in metadata.json names a file in
\* scripts/ whose content hashes to the id; as this holds in every state,
\* the file is there before the entry is.
C18_ReferentialIntegrity ==
    \A i \in DOMAIN metaFile.map :
        \A k \in 1..Len(metaFile.map[i]) :
            LET id == metaFile.map[i][k].id
            IN /\ id \in DOMAIN scripts
               /\ Sha256(scripts[id]) = id

\* C18: an invocation was killed after it wrote a second script file, with
\* the entry of the first in metadata.json
C18_Witness ==
    /\ pc = "failed"
    /\ err = "Interrupted"
    /\ runs = 2
    /\ metaFile.kind = "object"
    /\ \E i \in DOMAIN metaFile.map : Len(metaFile.map[i]) = 1
    /\ scripts # scripts0

\* C18: an invocation was killed after it wrote the first script file
C18_WitnessOrphan ==
    /\ pc = "failed"
    /\ err = "Interrupted"
    /\ metaFile = AbsentFile
    /\ scripts # NoScripts

====
